---- MODULE Spec2Model ----
(***************************************************************************)
(* Model of the SSL Labs API client (package sslscan, src/sslscan.go).     *)
(*                                                                         *)
(* Strings are sequences of one-character strings, so that concatenation,  *)
(* slicing (result[:len(result)-1]) and decimal formatting are computed    *)
(* the way the code computes them.  A call of a public operation is split  *)
(* at its blocking HTTP requests: a "Call" action runs the code up to the  *)
(* first api.Client.Do, a "Resp" action takes the transport's outcome and  *)
(* runs the code up to the next request or to the return.                  *)
(***************************************************************************)
EXTENDS Integers, Sequences, FiniteSets, TLC

VARIABLES api, ap, made, svc, frame, inflight, ret, qin, qout

vars == <<api, ap, made, svc, frame, inflight, ret, qin, qout>>

----------------------------------------------------------------------------
(* Bounds of the model *)

\* number of AnalyzeProgress handles the caller obtains from Analyze, one after
\* the other (the caller works with the handle it obtained last)
MaxHandles == 1

----------------------------------------------------------------------------
(* String literals of the source, character by character *)

API_URL_INFO == "https://api.ssllabs.com/api/v3/info"
API_URL_ANALYZE == "https://api.ssllabs.com/api/v3/analyze"
API_URL_DETAILED == "https://api.ssllabs.com/api/v3/getEndpointData"

STATUS_IN_PROGRESS == "IN_PROGRESS"
STATUS_DNS == "DNS"
STATUS_READY == "READY"
STATUS_ERROR == "ERROR"

\* the HTTP status code doRequest accepts
HTTP_OK == 200

Amp == "&"
Eq == "="

L_host == <<"h","o","s","t">>
L_publish == <<"p","u","b","l","i","s","h">>
L_public == <<"p","u","b","l","i","c">>
L_startNew == <<"s","t","a","r","t","N","e","w">>
L_fromCache == <<"f","r","o","m","C","a","c","h","e">>
L_maxAge == <<"m","a","x","A","g","e">>
L_ignoreMismatch == <<"i","g","n","o","r","e","M","i","s","m","a","t","c","h">>
L_all == <<"a","l","l">>
L_s == <<"s">>
L_on == <<"o","n">>

\* "<key>=on"
KeyOn(key) == key \o <<Eq>> \o L_on

Digit(d) == <<"0","1","2","3","4","5","6","7","8","9">>[d + 1]

RECURSIVE Digits(_)
Digits(n) == IF n < 10 THEN <<Digit(n)>> ELSE Digits(n \div 10) \o <<Digit(n % 10)>>

\* fmt.Sprintf("%d", n)
SprintfD(n) == IF n < 0 THEN <<"-">> \o Digits(0 - n) ELSE Digits(n)

----------------------------------------------------------------------------
(* paramsToQuery *)

\* faulty variant: the trailing separator is kept
DropLast_Keep(str) == str

\* result[:len(result)-1]
DropLast(str) == SubSeq(str, 1, Len(str) - 1)

\* the body of paramsToQuery, with the key it writes for params.Public
paramsToQueryWith(publicKey, params) ==
  LET r1 == IF params.Public THEN KeyOn(publicKey) \o <<Amp>> ELSE <<>>
      r2 == r1 \o (IF params.StartNew THEN KeyOn(L_startNew) \o <<Amp>> ELSE <<>>)
      r3 == r2 \o (IF params.FromCache THEN KeyOn(L_fromCache) \o <<Amp>> ELSE <<>>)
      r4 == r3 \o (IF params.MaxAge # 0
                     THEN L_maxAge \o <<Eq>> \o SprintfD(params.MaxAge) \o <<Amp>>
                     ELSE <<>>)
      r5 == r4 \o (IF params.IgnoreMismatch
                     THEN KeyOn(L_ignoreMismatch) \o <<Amp>>
                     ELSE <<>>)
  IN IF Len(r5) # 0 THEN DropLast(r5) ELSE <<>>

\* faulty variant: the key is taken from the field's name
paramsToQuery_Public(params) == paramsToQueryWith(L_public, params)

paramsToQuery(params) == paramsToQueryWith(L_publish, params)

----------------------------------------------------------------------------
(* Query strings of the three operations *)

\* &AnalyzeProgress{host: host, api: api, maxAge: params.MaxAge}; prevStatus
\* keeps its zero value, the empty string
NewProgress(host, params) ==
  [kind |-> "AnalyzeProgress", host |-> host, prevStatus |-> "",
   maxAge |-> params.MaxAge]

\* Analyze: query := "host=" + host; query += "&" + paramsToQuery(params)
AnalyzeQuery(host, params) ==
  L_host \o <<Eq>> \o host \o <<Amp>> \o paramsToQuery(params)

\* the fromCache / maxAge suffix shared by Info and GetEndpointInfo
CacheSuffix(p, fromCache) ==
  IF fromCache
    THEN <<Amp>> \o KeyOn(L_fromCache)
         \o (IF p.maxAge > 0
               THEN <<Amp>> \o L_maxAge \o <<Eq>> \o SprintfD(p.maxAge)
               ELSE <<>>)
    ELSE <<>>

InfoQuery(p, detailed, fromCache) ==
  L_host \o <<Eq>> \o p.host
  \o (IF detailed THEN <<Amp>> \o KeyOn(L_all) ELSE <<>>)
  \o CacheSuffix(p, fromCache)

\* faulty variant: the endpoint address is written first
EndpointQuery_AddressFirst(p, ip, fromCache) ==
  L_s \o <<Eq>> \o ip \o <<Amp>> \o L_host \o <<Eq>> \o p.host
  \o CacheSuffix(p, fromCache)

EndpointQuery(p, ip, fromCache) ==
  L_host \o <<Eq>> \o p.host \o <<Amp>> \o L_s \o <<Eq>> \o ip
  \o CacheSuffix(p, fromCache)

----------------------------------------------------------------------------
(* getUserAgent *)

VERSION == <<"1","2",".","0",".","0">>
L_SSLScan == <<"S","S","L","S","c","a","n","/">>

\* " (go; <runtime.Version()>; <GOARCH>-<GOOS>)": fixed by the build
RuntimeSuffix == <<" ","(","g","o",";"," ","go1.x",";"," ","arch","-","os",")">>

getUserAgent(app, version) ==
  IF app # <<>> /\ version # <<>>
    THEN app \o <<"/">> \o version \o <<" ">> \o L_SSLScan \o VERSION \o RuntimeSuffix
    ELSE L_SSLScan \o VERSION \o RuntimeSuffix

----------------------------------------------------------------------------
(* Inputs *)

Hosts == { <<"h">>, <<"g","&","x">> }
Ips == { <<"7">>, <<"7","&","y">> }
Apps == { <<>>, <<"m","y">> }
Versions == { <<>>, <<"1">> }
Statuses == {STATUS_DNS, STATUS_IN_PROGRESS, STATUS_READY, STATUS_ERROR}

P(pub, sn, fc, age, im) ==
  [Public |-> pub, StartNew |-> sn, FromCache |-> fc, MaxAge |-> age,
   IgnoreMismatch |-> im]

\* the AnalyzeParams values the caller passes to Analyze
ParamSamples ==
  { P(FALSE, FALSE, FALSE, 0, FALSE),
    P(TRUE, FALSE, FALSE, 0, FALSE),
    P(FALSE, TRUE, FALSE, -1, FALSE),
    P(TRUE, TRUE, TRUE, 12, TRUE) }

\* every AnalyzeParams value over a bounded set of MaxAge
MaxAges == {-12, -1, 0, 1, 9, 10, 305}
AllParams ==
  { P(pub, sn, fc, age, im) :
      pub \in BOOLEAN, sn \in BOOLEAN, fc \in BOOLEAN, age \in MaxAges,
      im \in BOOLEAN }

----------------------------------------------------------------------------
(* Errors, responses, doRequest *)

Nil == [kind |-> "nil"]

NoErr == [kind |-> "none", code |-> 0]
\* the error of api.Client.Do
TransportErr == [kind |-> "transport", code |-> 0]
\* fmt.Errorf("API return HTTP code %d", statusCode)
HTTPErr(statusCode) == [kind |-> "http", code |-> statusCode]
\* the error of json.Unmarshal
DecodeErr == [kind |-> "decode", code |-> 0]
\* fmt.Errorf("App name can't be empty")
AppNameErr == [kind |-> "appname", code |-> 0]
\* fmt.Errorf("Retrieving detailed information possible only with status READY")
NotReadyErr == [kind |-> "notready", code |-> 0]

HTTPCodes == {HTTP_OK, 204, 500}

NoBody == [valid |-> FALSE, Status |-> ""]

\* what the transport and the service can answer to a request: a transport
\* failure, a status other than 200, or 200 with a body that is either no
\* JSON of the expected shape or the service's document (for the analyze URL
\* it carries the service's status of the assessment)
Outcomes(url) ==
  { [terr |-> TRUE, code |-> 0, body |-> NoBody] }
  \cup { [terr |-> FALSE, code |-> c, body |-> NoBody] : c \in HTTPCodes \ {HTTP_OK} }
  \cup { [terr |-> FALSE, code |-> HTTP_OK, body |-> b] :
           b \in { NoBody,
                   [valid |-> TRUE,
                    Status |-> IF url = API_URL_ANALYZE THEN svc ELSE ""] } }

\* json.Unmarshal(resp.Body(), result), result a pointer to a struct of `kind`
Unmarshal(body, kind) ==
  IF body.valid
    THEN [err |-> NoErr, val |-> [kind |-> kind, Status |-> body.Status]]
    ELSE [err |-> DecodeErr, val |-> Nil]

\* faulty variant: the status code is not looked at
doRequest_NoStatusCheck(o, kind) ==
  IF o.terr THEN [err |-> TransportErr, val |-> Nil]
  ELSE IF kind = "nil" THEN [err |-> NoErr, val |-> Nil]
  ELSE Unmarshal(o.body, kind)

\* faulty variant: the body is decoded whether or not a result is wanted
doRequest_AlwaysDecode(o, kind) ==
  IF o.terr THEN [err |-> TransportErr, val |-> Nil]
  ELSE IF o.code # HTTP_OK THEN [err |-> HTTPErr(o.code), val |-> Nil]
  ELSE Unmarshal(o.body, kind)

\* doRequest(uri, result): the error it returns and the struct it has filled;
\* kind = "nil" stands for result == nil
doRequest(o, kind) ==
  IF o.terr THEN [err |-> TransportErr, val |-> Nil]
  ELSE IF o.code # HTTP_OK THEN [err |-> HTTPErr(o.code), val |-> Nil]
  ELSE IF kind = "nil" THEN [err |-> NoErr, val |-> Nil]
  ELSE Unmarshal(o.body, kind)

----------------------------------------------------------------------------
(* State *)

\* api      the *API the caller holds (Nil before NewAPI has returned one)
\* ap       the *AnalyzeProgress the caller holds (Nil before Analyze has
\*          returned one), made the number of handles Analyze has returned
\* svc      the service's own status of the assessment of the host
\* frame    the call in progress: operation, arguments (app is NewAPI's), and
\*          the requests it has sent (urls) and their outcomes (outs) so far
\* inflight the request handed to api.Client.Do that has not returned
\* ret      what the last completed call returned, with the requests it sent
\* qin, qout  argument and result of paramsToQuery under SpecQuery

Idle ==
  [op |-> "none", stage |-> "", prog |-> Nil, app |-> <<>>, name |-> <<>>,
   ip |-> <<>>, fromCache |-> FALSE, urls |-> <<>>, outs |-> <<>>,
   entry |-> ""]

NoReq == [url |-> "", query |-> <<>>]

NoRet ==
  [op |-> "none", app |-> <<>>, res |-> Nil, err |-> NoErr, urls |-> <<>>,
   outs |-> <<>>, entry |-> "", exit |-> ""]

Init ==
  /\ api = Nil
  /\ ap = Nil
  /\ made = 0
  /\ svc = STATUS_DNS
  /\ frame = Idle
  /\ inflight = NoReq
  /\ ret = NoRet
  /\ qin = Nil
  /\ qout = <<>>

\* api.Client.Do(req, resp) with req.SetRequestURI(uri): the request leaves
Send(url, query) == inflight' = [url |-> url, query |-> query]

\* a call is entered: op with the handle's status at entry
Enter(op, entry) == [Idle EXCEPT !.op = op, !.entry = entry]

\* the call returns (res, err) to its caller
Return(res, err, outs, exit) ==
  /\ ret' = [op |-> frame.op, app |-> frame.app, res |-> res, err |-> err,
             urls |-> frame.urls, outs |-> outs, entry |-> frame.entry,
             exit |-> exit]
  /\ frame' = Idle
  /\ inflight' = NoReq

----------------------------------------------------------------------------
(* NewAPI *)

NewAPICall(app, version) ==
  /\ frame.op = "none"
  /\ IF app = <<>>
       THEN /\ ret' = [NoRet EXCEPT !.op = "NewAPI", !.err = AppNameErr]
            /\ UNCHANGED <<frame, inflight>>
       ELSE /\ frame' = [Enter("NewAPI", "") EXCEPT
                           !.stage = "request",
                           !.app = app,
                           !.name = getUserAgent(app, version),
                           !.urls = <<API_URL_INFO>>]
            /\ Send(API_URL_INFO, <<>>)
            /\ ret' = NoRet
  /\ UNCHANGED <<api, ap, made, svc, qin, qout>>

\* faulty variant: the API is returned together with the error
NewAPIResp_ReturnsAPI(o) ==
  /\ frame.op = "NewAPI"
  /\ LET r == doRequest(o, "Info")
         new == [kind |-> "API", Name |-> frame.name, Info |-> r.val]
     IN /\ Return(new, r.err, <<o>>, "")
        /\ api' = new
  /\ UNCHANGED <<ap, made, svc, qin, qout>>

NewAPIResp(o) ==
  /\ frame.op = "NewAPI"
  /\ LET r == doRequest(o, "Info")
         new == [kind |-> "API", Name |-> frame.name, Info |-> r.val]
     IN IF r.err # NoErr
          THEN /\ Return(Nil, r.err, <<o>>, "")
               /\ UNCHANGED api
          ELSE /\ Return(new, NoErr, <<o>>, "")
               /\ api' = new
  /\ UNCHANGED <<ap, made, svc, qin, qout>>

----------------------------------------------------------------------------
(* API.Analyze *)

AnalyzeCall(host, params) ==
  /\ frame.op = "none"
  /\ api # Nil
  /\ made < MaxHandles
  /\ frame' = [Enter("Analyze", "") EXCEPT
                 !.stage = "request",
                 !.prog = NewProgress(host, params),
                 !.urls = <<API_URL_ANALYZE>>]
  /\ Send(API_URL_ANALYZE, AnalyzeQuery(host, params))
  /\ ret' = NoRet
  /\ UNCHANGED <<api, ap, made, svc, qin, qout>>

AnalyzeResp(o) ==
  /\ frame.op = "Analyze"
  /\ LET r == doRequest(o, "nil")
     IN IF r.err # NoErr
          THEN /\ Return(Nil, r.err, <<o>>, "")
               /\ UNCHANGED <<ap, made>>
          ELSE /\ Return(frame.prog, NoErr, <<o>>, "")
               /\ ap' = frame.prog
               /\ made' = made + 1
  /\ UNCHANGED <<api, svc, qin, qout>>

----------------------------------------------------------------------------
(* AnalyzeProgress.Info *)

\* faulty variant: prevStatus is assigned before the error is looked at
InfoFinish_AssignFirst(p, o) ==
  LET r == doRequest(o, "AnalyzeInfo")
  IN IF r.err # NoErr
       THEN [ap |-> [p EXCEPT !.prevStatus = ""], res |-> Nil, err |-> r.err]
       ELSE [ap |-> [p EXCEPT !.prevStatus = r.val.Status],
             res |-> r.val, err |-> NoErr]

\* lines 575-584: what Info does with the outcome of its request: the handle
\* after the call, the result and the error
InfoFinish(p, o) ==
  LET r == doRequest(o, "AnalyzeInfo")
  IN IF r.err # NoErr
       THEN [ap |-> p, res |-> Nil, err |-> r.err]
       ELSE [ap |-> [p EXCEPT !.prevStatus = r.val.Status],
             res |-> r.val, err |-> NoErr]

InfoCall(detailed, fromCache) ==
  /\ frame.op = "none"
  /\ ap # Nil
  /\ frame' = [Enter("Info", ap.prevStatus) EXCEPT
                 !.stage = "request",
                 !.fromCache = fromCache,
                 !.urls = <<API_URL_ANALYZE>>]
  /\ Send(API_URL_ANALYZE, InfoQuery(ap, detailed, fromCache))
  /\ ret' = NoRet
  /\ UNCHANGED <<api, ap, made, svc, qin, qout>>

InfoResp(o) ==
  /\ frame.op = "Info"
  /\ LET f == InfoFinish(ap, o)
     IN /\ ap' = f.ap
        /\ Return(f.res, f.err, <<o>>, f.ap.prevStatus)
  /\ UNCHANGED <<api, made, svc, qin, qout>>

----------------------------------------------------------------------------
(* AnalyzeProgress.GetEndpointInfo *)

\* faulty variants: the refresh is made on every call, on no call
NeedsRefresh_Always(p) == TRUE
NeedsRefresh_Never(p) == FALSE

\* line 591: if ap.prevStatus != STATUS_READY
NeedsRefresh(p) == p.prevStatus # STATUS_READY

\* faulty variants: the second status test is missing; the refreshed status is
\* rejected whatever it is; the error of the refresh is not looked at
AfterRefresh_NoReject(err, p) == IF err # NoErr THEN "error" ELSE "detail"
AfterRefresh_RejectAll(err, p) == IF err # NoErr THEN "error" ELSE "reject"
AfterRefresh_IgnoreErr(err, p) ==
  IF p.prevStatus # STATUS_READY THEN "reject" ELSE "detail"

\* lines 594-600: after ap.Info(false, false) returned err and left the handle
\* as p: return the error, reject, or go on to the endpoint-detail request
AfterRefresh(err, p) ==
  IF err # NoErr THEN "error"
  ELSE IF p.prevStatus # STATUS_READY THEN "reject"
  ELSE "detail"

GetEndpointInfoCall(ip, fromCache) ==
  /\ frame.op = "none"
  /\ ap # Nil
  /\ LET f == [Enter("GetEndpointInfo", ap.prevStatus) EXCEPT
                 !.ip = ip, !.fromCache = fromCache]
     IN IF NeedsRefresh(ap)
          THEN /\ frame' = [f EXCEPT !.stage = "refresh",
                                     !.urls = <<API_URL_ANALYZE>>]
               /\ Send(API_URL_ANALYZE, InfoQuery(ap, FALSE, FALSE))
          ELSE /\ frame' = [f EXCEPT !.stage = "detail",
                                     !.urls = <<API_URL_DETAILED>>]
               /\ Send(API_URL_DETAILED, EndpointQuery(ap, ip, fromCache))
  /\ ret' = NoRet
  /\ UNCHANGED <<api, ap, made, svc, qin, qout>>

\* the response to the request of ap.Info(false, false), lines 592-611
GetEndpointInfoRefreshResp(o) ==
  /\ frame.op = "GetEndpointInfo"
  /\ frame.stage = "refresh"
  /\ LET f == InfoFinish(ap, o)
         next == AfterRefresh(f.err, f.ap)
     IN /\ ap' = f.ap
        /\ CASE next = "error" -> Return(Nil, f.err, <<o>>, f.ap.prevStatus)
             [] next = "reject" -> Return(Nil, NotReadyErr, <<o>>, f.ap.prevStatus)
             [] OTHER ->
                  /\ frame' = [frame EXCEPT !.stage = "detail",
                                            !.urls = Append(@, API_URL_DETAILED),
                                            !.outs = <<o>>]
                  /\ Send(API_URL_DETAILED,
                          EndpointQuery(f.ap, frame.ip, frame.fromCache))
                  /\ UNCHANGED ret
  /\ UNCHANGED <<api, made, svc, qin, qout>>

\* the response to the endpoint-detail request, lines 613-620
GetEndpointInfoDetailResp(o) ==
  /\ frame.op = "GetEndpointInfo"
  /\ frame.stage = "detail"
  /\ LET r == doRequest(o, "EndpointInfo")
     IN IF r.err # NoErr
          THEN Return(Nil, r.err, Append(frame.outs, o), ap.prevStatus)
          ELSE Return(r.val, NoErr, Append(frame.outs, o), ap.prevStatus)
  /\ UNCHANGED <<api, ap, made, svc, qin, qout>>

----------------------------------------------------------------------------
(* The remote service *)

\* the service owns the assessment's status and changes it on its own (the
\* assessment progresses, expires from the cache, or is started anew)
ServiceStep(s) ==
  /\ svc # s
  /\ svc' = s
  /\ UNCHANGED <<api, ap, made, frame, inflight, ret, qin, qout>>

Next ==
  \/ \E app \in Apps, version \in Versions : NewAPICall(app, version)
  \/ \E o \in Outcomes(inflight.url) : NewAPIResp(o)
  \/ \E host \in Hosts, params \in ParamSamples : AnalyzeCall(host, params)
  \/ \E o \in Outcomes(inflight.url) : AnalyzeResp(o)
  \/ \E detailed \in BOOLEAN, fromCache \in BOOLEAN : InfoCall(detailed, fromCache)
  \/ \E o \in Outcomes(inflight.url) : InfoResp(o)
  \/ \E ip \in Ips, fromCache \in BOOLEAN : GetEndpointInfoCall(ip, fromCache)
  \/ \E o \in Outcomes(inflight.url) : GetEndpointInfoRefreshResp(o)
  \/ \E o \in Outcomes(inflight.url) : GetEndpointInfoDetailResp(o)
  \/ \E s \in Statuses : ServiceStep(s)

Spec == Init /\ [][Next]_vars

----------------------------------------------------------------------------
(* paramsToQuery on its own: every AnalyzeParams value of AllParams *)

InitQuery ==
  /\ api = Nil
  /\ ap = Nil
  /\ made = 0
  /\ svc = STATUS_DNS
  /\ frame = Idle
  /\ inflight = NoReq
  /\ ret = NoRet
  /\ qin \in AllParams
  /\ qout = <<"?">>

ApplyParamsToQuery ==
  /\ qout = <<"?">>
  /\ qout' = paramsToQuery(qin)
  /\ UNCHANGED <<api, ap, made, svc, frame, inflight, ret, qin>>

SpecQuery == InitQuery /\ [][ApplyParamsToQuery]_vars

----------------------------------------------------------------------------
(* Properties *)

GEI == "GetEndpointInfo"

Last(q) == q[Len(q)]

\* what the transport handed back, read off the outcome itself
Is200(o) == ~o.terr /\ o.code = HTTP_OK
Decodes(o) == Is200(o) /\ o.body.valid

\* number of requests to the analyze URL among urls
Refreshes(urls) == Cardinality({i \in DOMAIN urls : urls[i] = API_URL_ANALYZE})

DetailSent(urls) == \E i \in DOMAIN urls : urls[i] = API_URL_DETAILED

\* C1: an endpoint-detail request is in flight only while the handle's last
\* observed status is READY; a GetEndpointInfo that ends with the status not
\* READY has returned nil and an error and has sent no endpoint-detail request
C1_DetailOnlyWhenReady ==
  /\ inflight.url = API_URL_DETAILED => ap.prevStatus = STATUS_READY
  /\ (ret.op = GEI /\ ret.exit # STATUS_READY)
       => /\ ret.res = Nil
          /\ ret.err # NoErr
          /\ ~DetailSent(ret.urls)

\* the endpoint-detail request leaves right after a refresh
C1_Witness ==
  /\ inflight.url = API_URL_DETAILED
  /\ frame.entry = STATUS_IN_PROGRESS
  /\ frame.urls = <<API_URL_ANALYZE, API_URL_DETAILED>>

\* C2: a GetEndpointInfo call makes exactly one status refresh, the request of
\* Info(false, false), when the status is not READY at entry, none when it is
\* READY at entry, and the refresh is the first request of the call
C2_OneRefresh ==
  /\ frame.op = GEI
       => /\ Refreshes(frame.urls) = IF frame.entry # STATUS_READY THEN 1 ELSE 0
          /\ frame.stage = "refresh"
               => inflight = [url |-> API_URL_ANALYZE,
                              query |-> L_host \o <<Eq>> \o ap.host]
  /\ ret.op = GEI
       => /\ Refreshes(ret.urls) = IF ret.entry # STATUS_READY THEN 1 ELSE 0
          /\ Refreshes(ret.urls) = 1 => ret.urls[1] = API_URL_ANALYZE

\* a call that found the status not READY has refreshed once and gone on
C2_Witness ==
  /\ ret.op = GEI
  /\ ret.entry = STATUS_DNS
  /\ ret.urls = <<API_URL_ANALYZE, API_URL_DETAILED>>

\* C3: when every request of a GetEndpointInfo call got HTTP 200 and the
\* status document of the refresh (if one was needed) reported READY, the
\* endpoint-detail request was sent and the call did not end with the
\* "possible only with status READY" error; when moreover the endpoint
\* document decodes, the call returned it with a nil error
C3_NoFalseReject ==
  (/\ ret.op = GEI
   /\ \A i \in DOMAIN ret.outs : Is200(ret.outs[i])
   /\ ret.entry # STATUS_READY
        => Decodes(ret.outs[1]) /\ ret.outs[1].body.Status = STATUS_READY)
    => /\ Last(ret.urls) = API_URL_DETAILED
       /\ ret.err # NotReadyErr
       /\ Decodes(Last(ret.outs))
            => /\ ret.err = NoErr
               /\ ret.res = [kind |-> "EndpointInfo",
                             Status |-> Last(ret.outs).body.Status]

\* a handle whose last status was ERROR gets the endpoint info once the
\* service reports READY
C3_Witness ==
  /\ ret.op = GEI
  /\ ret.entry = STATUS_ERROR
  /\ ret.err = NoErr
  /\ ret.res # Nil

\* C4 as stated: once the last-known status of a handle is READY, it never
\* holds another value
C4_ReadyIsFinal ==
  [][(made' = made /\ ap # Nil /\ ap.prevStatus = STATUS_READY)
       => ap'.prevStatus = STATUS_READY]_vars

\* C4 amended: a READY last-known status is left only by an explicit Info call
\* that succeeds, and the new value is the status its response reports;
\* GetEndpointInfo and failed Info calls leave a READY status as it is
C4_ReadyLeftOnlyByInfo ==
  [][(made' = made /\ ap # Nil /\ ap.prevStatus = STATUS_READY
        /\ ap'.prevStatus # STATUS_READY)
       => /\ frame.op = "Info"
          /\ ret'.op = "Info"
          /\ ret'.err = NoErr
          /\ Decodes(ret'.outs[1])
          /\ ap'.prevStatus = ret'.outs[1].body.Status]_vars

\* an Info call on a READY handle came back with another status
C4_Witness ==
  /\ ret.op = "Info"
  /\ ret.entry = STATUS_READY
  /\ ret.err = NoErr
  /\ ap.prevStatus = STATUS_IN_PROGRESS

\* the number of requests a call may send: two for a GetEndpointInfo that
\* found the status not READY, one otherwise
MaxRequests(op, entry) == IF op = GEI /\ entry # STATUS_READY THEN 2 ELSE 1

\* C5 as stated: a call sends at most one HTTP request, and none is in flight
\* once it has returned
C5_SingleRequest ==
  /\ Len(frame.urls) <= 1
  /\ Len(ret.urls) <= 1
  /\ frame.op = "none" => inflight = NoReq

\* C5 amended: NewAPI, Analyze, Info and a GetEndpointInfo entered with status
\* READY send at most one request; a GetEndpointInfo entered with another
\* status sends at most two, the second only after the first has returned;
\* exactly one request is in flight while a call waits, none after its return
C5_SynchronousRequests ==
  /\ frame.op = "none" => inflight = NoReq
  /\ frame.op # "none"
       => /\ inflight # NoReq
          /\ inflight.url = Last(frame.urls)
          /\ Len(frame.outs) = Len(frame.urls) - 1
          /\ Len(frame.urls) <= MaxRequests(frame.op, frame.entry)
  /\ ret.op # "none"
       => /\ Len(ret.urls) <= MaxRequests(ret.op, ret.entry)
          /\ Len(ret.outs) = Len(ret.urls)

\* a GetEndpointInfo call has returned after two requests
C5_Witness ==
  /\ ret.op = GEI
  /\ Len(ret.urls) = 2
  /\ frame.op = "none"
  /\ inflight = NoReq

\* whether the request of outcome o failed for a call that decodes the body
\* (Analyze passes result == nil and decodes nothing)
Failed(o, op) == o.terr \/ o.code # HTTP_OK \/ (op # "Analyze" /\ ~o.body.valid)

\* C6: once a request of a call has ended in a transport failure, a status
\* other than 200 or a decode failure, the call sends no further request and
\* returns an error
C6_NoRetry ==
  /\ \A i \in DOMAIN frame.outs : ~Failed(frame.outs[i], frame.op)
  /\ \A i \in DOMAIN ret.outs :
       Failed(ret.outs[i], ret.op)
         => /\ Len(ret.urls) = i
            /\ ret.err # NoErr

\* the refresh of a GetEndpointInfo failed and no endpoint-detail request
\* followed
C6_Witness ==
  /\ ret.op = GEI
  /\ ret.entry = STATUS_IN_PROGRESS
  /\ ret.outs[1].terr
  /\ ret.urls = <<API_URL_ANALYZE>>

\* the error doRequest is documented to produce for a failed request
ErrorOf(o) ==
  IF o.terr THEN TransportErr
  ELSE IF o.code # HTTP_OK THEN HTTPErr(o.code)
  ELSE DecodeErr

\* C7: when a request of a call fails, the call returns exactly the error of
\* that request (the transport's, the one carrying the received status code,
\* or the decoder's) and a nil result
C7_ErrorVerbatim ==
  \A i \in DOMAIN ret.outs :
    Failed(ret.outs[i], ret.op)
      => /\ ret.err = ErrorOf(ret.outs[i])
         /\ ret.res = Nil

\* the refresh inside GetEndpointInfo got status 500 and the caller sees it
C7_Witness ==
  /\ ret.op = GEI
  /\ ret.outs[1].code = 500
  /\ ret.err = HTTPErr(500)

\* C8 as stated: every error returned is a transport failure, a status other
\* than 200 or a decode failure
C8_ThreeErrorKinds ==
  ret.err.kind \in {"none", "transport", "http", "decode"}

\* C8 amended: besides the errors of a failed request there are two errors
\* the library makes itself: NewAPI's for an empty application name, returned
\* before any request, and GetEndpointInfo's for a status that is not READY
\* after a successful refresh
C8_FiveErrorKinds ==
  /\ ret.err.kind \in {"none", "transport", "http", "decode", "appname", "notready"}
  /\ ret.err.kind \in {"transport", "http", "decode"}
       => /\ ret.outs # <<>>
          /\ Failed(Last(ret.outs), ret.op)
          /\ ret.err = ErrorOf(Last(ret.outs))
  /\ ret.err.kind = "appname" => ret.op = "NewAPI" /\ ret.urls = <<>>
  /\ ret.err.kind = "notready"
       => /\ ret.op = GEI
          /\ ret.urls = <<API_URL_ANALYZE>>
          /\ Decodes(ret.outs[1])
          /\ ret.outs[1].body.Status # STATUS_READY

\* GetEndpointInfo has rejected a status that is not READY
C8_Witness ==
  /\ ret.op = GEI
  /\ ret.err = NotReadyErr

----------------------------------------------------------------------------
(* Query strings, read the way a query parser reads them *)

\* index of the first sep in str, 0 when there is none
IndexOf(str, sep) ==
  IF \E i \in DOMAIN str : str[i] = sep
    THEN CHOOSE i \in DOMAIN str : str[i] = sep /\ \A j \in 1..(i - 1) : str[j] # sep
    ELSE 0

\* the pieces of str between the separators
RECURSIVE Split(_, _)
Split(str, sep) ==
  LET i == IndexOf(str, sep)
  IN IF i = 0 THEN <<str>>
     ELSE <<SubSeq(str, 1, i - 1)>> \o Split(SubSeq(str, i + 1, Len(str)), sep)

\* the name of a pair: what precedes its first '='
NameOf(pair) ==
  LET i == IndexOf(pair, Eq) IN IF i = 0 THEN pair ELSE SubSeq(pair, 1, i - 1)

\* the names of the parameters of a query (an empty pair is no parameter)
ParamNames(query) ==
  LET pairs == Split(query, Amp)
  IN {NameOf(pairs[i]) : i \in {j \in DOMAIN pairs : pairs[j] # <<>>}}

\* strs joined with sep
RECURSIVE Join(_, _)
Join(strs, sep) ==
  IF strs = <<>> THEN <<>>
  ELSE IF Len(strs) = 1 THEN strs[1]
  ELSE strs[1] \o <<sep>> \o Join(Tail(strs), sep)

\* the pairs C9 lists for params, in its order
ExpectedPairs(params) ==
  (IF params.Public THEN <<KeyOn(L_publish)>> ELSE <<>>)
  \o (IF params.StartNew THEN <<KeyOn(L_startNew)>> ELSE <<>>)
  \o (IF params.FromCache THEN <<KeyOn(L_fromCache)>> ELSE <<>>)
  \o (IF params.MaxAge # 0
        THEN <<L_maxAge \o <<Eq>> \o SprintfD(params.MaxAge)>>
        ELSE <<>>)
  \o (IF params.IgnoreMismatch THEN <<KeyOn(L_ignoreMismatch)>> ELSE <<>>)

Applied == qout # <<"?">>

NothingSet(params) ==
  /\ ~params.Public /\ ~params.StartNew /\ ~params.FromCache
  /\ params.MaxAge = 0 /\ ~params.IgnoreMismatch

\* C9: paramsToQuery(params) is the '&'-joined list, in the order publish,
\* startNew, fromCache, maxAge, ignoreMismatch, of "<key>=on" for each true
\* boolean and "maxAge=<MaxAge>" for a MaxAge other than 0; no key occurs
\* twice, the result neither starts nor ends with '&', and it is empty
\* exactly when nothing is set
C9_QueryOfParams ==
  Applied
    => /\ qout = Join(ExpectedPairs(qin), Amp)
       /\ LET pairs == Split(qout, Amp)
          IN \A i, j \in DOMAIN pairs :
               NameOf(pairs[i]) = NameOf(pairs[j]) => i = j
       /\ qout # <<>> => qout[1] # Amp /\ Last(qout) # Amp
       /\ (qout = <<>>) <=> NothingSet(qin)

\* every option set, with a negative MaxAge of two digits
C9_Witness ==
  /\ Applied
  /\ qin = P(TRUE, TRUE, TRUE, -12, TRUE)
  /\ Len(Split(qout, Amp)) = 5

\* the calls C10 is about
SendsQuery ==
  /\ inflight # NoReq
  /\ frame.op \in {"Analyze", "Info", GEI}

\* the host of the call in progress
CallHost == IF frame.op = "Analyze" THEN frame.prog.host ELSE ap.host

\* a string that reads as one value inside a query
Plain(str) == \A i \in DOMAIN str : str[i] # Amp

\* C10 as stated (tried on host names and endpoint addresses without '&'):
\* every parameter of every request is named host, public, startNew,
\* fromCache, maxAge, ignoreMismatch or all
C10_NamesOfTheSpec ==
  (SendsQuery /\ Plain(CallHost) /\ Plain(frame.ip))
    => ParamNames(inflight.query)
         \subseteq {L_host, L_public, L_startNew, L_fromCache, L_maxAge,
                    L_ignoreMismatch, L_all}

\* C10 amended: for a host name and an endpoint address without '&', every
\* parameter of every request is named host, publish, startNew, fromCache,
\* maxAge, ignoreMismatch, all or s ("publish", not "public", is what Analyze
\* sends for Public, and GetEndpointInfo names the endpoint with "s")
C10_NamesOfTheCode ==
  (SendsQuery /\ Plain(CallHost) /\ Plain(frame.ip))
    => ParamNames(inflight.query)
         \subseteq {L_host, L_publish, L_startNew, L_fromCache, L_maxAge,
                    L_ignoreMismatch, L_all, L_s}

\* Analyze sends every option it has for a plain host
C10_Witness ==
  /\ frame.op = "Analyze"
  /\ Plain(frame.prog.host)
  /\ ParamNames(inflight.query)
       = {L_host, L_publish, L_startNew, L_fromCache, L_maxAge, L_ignoreMismatch}

----------------------------------------------------------------------------
(* The handle's fields *)

\* the status the handle must hold after a call that was entered with status
\* entry and whose status request, if it made one, had outcome o
StatusAfter(entry, asked, o) ==
  IF asked /\ Decodes(o) THEN o.body.Status ELSE entry

\* C11: the last observed status is empty when Analyze returns the handle,
\* whatever the response said; after Info it is the status of the response if
\* the call succeeded and the status at entry if it failed; GetEndpointInfo
\* changes it only through its refresh, in the same way, and the
\* endpoint-detail request and its response leave it as it is
C11_LastObservedStatus ==
  /\ (ret.op = "Analyze" /\ ret.res # Nil)
       => ap.prevStatus = "" /\ ret.res.prevStatus = ""
  /\ ret.op = "Info"
       => ap.prevStatus = StatusAfter(ret.entry, TRUE, ret.outs[1])
  /\ ret.op = GEI
       => ap.prevStatus
            = StatusAfter(ret.entry, ret.entry # STATUS_READY, ret.outs[1])
  /\ frame.op \in {"Info", GEI}
       => ap.prevStatus
            = IF frame.outs = <<>> THEN frame.entry
              ELSE StatusAfter(frame.entry, TRUE, frame.outs[1])

\* an Info call failed on a READY handle and the handle is still READY
C11_Witness ==
  /\ ret.op = "Info"
  /\ ret.err # NoErr
  /\ ret.entry = STATUS_READY
  /\ ap.prevStatus = STATUS_READY

\* query begins with host=<host>, and nothing of the value follows
StartsWithHost(query, host) ==
  LET prefix == L_host \o <<Eq>> \o host
  IN /\ Len(query) >= Len(prefix)
     /\ SubSeq(query, 1, Len(prefix)) = prefix
     /\ Len(query) > Len(prefix) => query[Len(prefix) + 1] = Amp
     /\ Plain(host) => Split(query, Amp)[1] = prefix

\* C12: the handle's host and maxAge are those given to Analyze and no Info
\* or GetEndpointInfo call changes them; every request sent through the
\* handle, the refresh inside GetEndpointInfo included, begins with
\* host=<host> (its first parameter for a host without '&')
C12_HostAndMaxAgeFixed ==
  /\ [](frame.op \in {"Info", GEI} => StartsWithHost(inflight.query, ap.host))
  /\ [][made' # made
          => ap'.host = frame.prog.host /\ ap'.maxAge = frame.prog.maxAge]_vars
  /\ [][(made' = made /\ ap # Nil)
          => ap'.host = ap.host /\ ap'.maxAge = ap.maxAge]_vars

\* the endpoint-detail request of a call that refreshed first is in flight
C12_Witness ==
  /\ frame.op = GEI
  /\ frame.urls = <<API_URL_ANALYZE, API_URL_DETAILED>>
  /\ frame.fromCache
  /\ ap.maxAge = 12

----------------------------------------------------------------------------
(* The service's state and the endpoint-detail request *)

\* the step that hands an endpoint-detail request to the transport
SendsDetail == inflight'.url = API_URL_DETAILED /\ inflight.url # API_URL_DETAILED

\* C14 as stated: at the moment an endpoint-detail request is sent, the
\* service's own status of the assessment is READY
C14_ServiceReadyAtSend == [][SendsDetail => svc' = STATUS_READY]_vars

\* C14 amended: at the moment an endpoint-detail request is sent, READY is
\* the status the service last reported to this handle: by the refresh of
\* this call, or by an earlier call, in which case the request is sent without
\* asking again, whatever the service's status has become
C14_LastReportReadyAtSend ==
  [][SendsDetail
       => /\ ap'.prevStatus = STATUS_READY
          /\ frame.op = "none"
               => ap.prevStatus = STATUS_READY /\ frame'.urls = <<API_URL_DETAILED>>
          /\ frame.op # "none"
               => /\ frame.op = GEI
                  /\ Decodes(frame'.outs[1])
                  /\ frame'.outs[1].body.Status = STATUS_READY]_vars

\* a request for endpoint detail is in flight, sent on the strength of an
\* earlier READY, while the service has the assessment IN_PROGRESS
C14_Witness ==
  /\ inflight.url = API_URL_DETAILED
  /\ frame.urls = <<API_URL_DETAILED>>
  /\ svc = STATUS_IN_PROGRESS

----------------------------------------------------------------------------
(* The shape of the queries *)

ValueOf(pair) ==
  LET i == IndexOf(pair, Eq) IN IF i = 0 THEN <<>> ELSE SubSeq(pair, i + 1, Len(pair))

\* value is the decimal form of an integer greater than 0
PositiveDecimal(value) ==
  /\ value # <<>>
  /\ \A i \in DOMAIN value : value[i] \in {"0","1","2","3","4","5","6","7","8","9"}
  /\ \E i \in DOMAIN value : value[i] # "0"

PlainCall == SendsQuery /\ Plain(CallHost) /\ Plain(frame.ip)

\* C15: in every request of Analyze, Info and GetEndpointInfo (for a host and
\* an endpoint address without '&'), maxAge comes only together with
\* fromCache=on and only with a value greater than 0
C15_MaxAgeOnlyWithCache ==
  PlainCall
    => LET pairs == Split(inflight.query, Amp)
       IN \A i \in DOMAIN pairs :
            NameOf(pairs[i]) = L_maxAge
              => /\ \E j \in DOMAIN pairs : pairs[j] = KeyOn(L_fromCache)
                 /\ PositiveDecimal(ValueOf(pairs[i]))

\* a list of non-empty key=value pairs
WellFormed(query) ==
  LET pairs == Split(query, Amp)
  IN \A i \in DOMAIN pairs :
       /\ pairs[i] # <<>>
       /\ IndexOf(pairs[i], Eq) > 1
       /\ IndexOf(pairs[i], Eq) < Len(pairs[i])

\* C16: the query Analyze sends (for a host without '&') begins with
\* host=<host>, is a '&'-joined list of non-empty key=value pairs, and does
\* not end with '&'
C16_AnalyzeQueryWellFormed ==
  (frame.op = "Analyze" /\ Plain(frame.prog.host))
    => /\ StartsWithHost(inflight.query, frame.prog.host)
       /\ Last(inflight.query) # Amp
       /\ WellFormed(inflight.query)

----------------------------------------------------------------------------
(* NewAPI and Analyze *)

\* C17: NewAPI with an empty application name returns nil and an error and
\* sends nothing; with a name it sends one request, to the info URL, and
\* returns an API holding the decoded response when that request got 200 and
\* a body that decodes, nil and an error otherwise
C17_NewAPIResult ==
  /\ frame.op = "NewAPI"
       => /\ frame.app # <<>>
          /\ frame.urls = <<API_URL_INFO>>
          /\ inflight.url = API_URL_INFO
  /\ ret.op = "NewAPI"
       => IF ret.app = <<>>
            THEN ret.res = Nil /\ ret.err # NoErr /\ ret.urls = <<>>
            ELSE /\ ret.urls = <<API_URL_INFO>>
                 /\ Len(ret.outs) = 1
                 /\ IF Decodes(ret.outs[1])
                      THEN /\ ret.err = NoErr
                           /\ ret.res # Nil
                           /\ ret.res.Info
                                = [kind |-> "Info",
                                   Status |-> ret.outs[1].body.Status]
                           /\ api = ret.res
                      ELSE ret.res = Nil /\ ret.err # NoErr

\* NewAPI was refused its API because the info request got status 500
C17_Witness ==
  /\ ret.op = "NewAPI"
  /\ ret.app # <<>>
  /\ ret.outs[1].code = 500
  /\ ret.res = Nil

\* sub occurs in str
Contains(str, sub) ==
  \E i \in 1..(Len(str) - Len(sub) + 1) : SubSeq(str, i, i + Len(sub) - 1) = sub

\* C18: the user-agent NewAPI configures on the client, and the one of the
\* API it returns, contains the application name
C18_UserAgentNamesApp ==
  /\ frame.op = "NewAPI" => Contains(frame.name, frame.app)
  /\ (ret.op = "NewAPI" /\ ret.res # Nil) => Contains(ret.res.Name, ret.app)

\* C19: Analyze returns a handle and a nil error exactly when its request
\* came back without transport failure and with status 200, whatever the
\* body; otherwise it returns nil and an error
C19_AnalyzeIgnoresBody ==
  ret.op = "Analyze"
    => /\ ret.urls = <<API_URL_ANALYZE>>
       /\ IF Is200(ret.outs[1])
            THEN ret.res # Nil /\ ret.res = ap /\ ret.err = NoErr
            ELSE ret.res = Nil /\ ret.err # NoErr

\* a 200 response whose body is no JSON has yielded a handle
C19_Witness ==
  /\ ret.op = "Analyze"
  /\ Is200(ret.outs[1])
  /\ ~ret.outs[1].body.valid
  /\ ret.res # Nil
  /\ ret.err = NoErr

----------------------------------------------------------------------------
(* The response schema: the structs of lines 180-507 and their json tags *)

T_string == [t |-> "string"]
T_int == [t |-> "int"]
T_int64 == [t |-> "int64"]
T_bool == [t |-> "bool"]
\* map[string]string
T_map == [t |-> "map"]
\* *T, []T and a struct type
Ptr(ty) == [t |-> "ptr", of |-> ty]
Slice(ty) == [t |-> "slice", of |-> ty]
Struct(kind) == [t |-> "struct", of |-> kind]

S_Info ==
  <<
     <<"EngineVersion", "engineVersion", T_string>>,
     <<"CriteriaVersion", "criteriaVersion", T_string>>,
     <<"MaxAssessments", "maxAssessments", T_int>>,
     <<"CurrentAssessments", "currentAssessments", T_int>>,
     <<"NewAssessmentCoolOff", "newAssessmentCoolOff", T_int>>,
     <<"Messages", "messages", Slice(T_string)>>
  >>

S_AnalyzeInfo ==
  <<
     <<"Host", "host", T_string>>,
     <<"Port", "port", T_int>>,
     <<"Protocol", "protocol", T_string>>,
     <<"IsPublic", "isPublic", T_bool>>,
     <<"Status", "status", T_string>>,
     <<"StatusMessage", "statusMessage", T_string>>,
     <<"StartTime", "startTime", T_int64>>,
     <<"TestTime", "testTime", T_int64>>,
     <<"EngineVersion", "engineVersion", T_string>>,
     <<"CriteriaVersion", "criteriaVersion", T_string>>,
     <<"CacheExpiryTime", "cacheExpiryTime", T_int64>>,
     <<"CertHostnames", "certHostnames", Slice(T_string)>>,
     <<"Endpoints", "endpoints", Slice(Ptr(Struct("EndpointInfo")))>>,
     <<"Certs", "certs", Slice(Ptr(Struct("Cert")))>>
  >>

\* faulty variant: StatusDetailsMessage carries the tag of StatusDetails
S_EndpointInfo_CopiedTag ==
  <<
     <<"IPAdress", "ipAddress", T_string>>,
     <<"ServerName", "serverName", T_string>>,
     <<"StatusMessage", "statusMessage", T_string>>,
     <<"StatusDetails", "statusDetails", T_string>>,
     <<"StatusDetailsMessage", "statusDetails", T_string>>,
     <<"Grade", "grade", T_string>>,
     <<"GradeTrustIgnored", "gradeTrustIgnored", T_string>>,
     <<"FutureGrade", "futureGrade", T_string>>,
     <<"HasWarnings", "hasWarnings", T_bool>>,
     <<"IsExceptional", "isExceptional", T_bool>>,
     <<"Progress", "progress", T_int>>,
     <<"Duration", "duration", T_int>>,
     <<"ETA", "eta", T_int>>,
     <<"Delegation", "delegation", T_int>>,
     <<"Details", "details", Ptr(Struct("EndpointDetails"))>>
  >>

S_EndpointInfo ==
  <<
     <<"IPAdress", "ipAddress", T_string>>,
     <<"ServerName", "serverName", T_string>>,
     <<"StatusMessage", "statusMessage", T_string>>,
     <<"StatusDetails", "statusDetails", T_string>>,
     <<"StatusDetailsMessage", "statusDetailsMessage", T_string>>,
     <<"Grade", "grade", T_string>>,
     <<"GradeTrustIgnored", "gradeTrustIgnored", T_string>>,
     <<"FutureGrade", "futureGrade", T_string>>,
     <<"HasWarnings", "hasWarnings", T_bool>>,
     <<"IsExceptional", "isExceptional", T_bool>>,
     <<"Progress", "progress", T_int>>,
     <<"Duration", "duration", T_int>>,
     <<"ETA", "eta", T_int>>,
     <<"Delegation", "delegation", T_int>>,
     <<"Details", "details", Ptr(Struct("EndpointDetails"))>>
  >>

S_EndpointDetails ==
  <<
     <<"HostStartTime", "hostStartTime", T_int64>>,
     <<"CertChains", "certChains", Slice(Ptr(Struct("ChainCert")))>>,
     <<"Protocols", "protocols", Slice(Ptr(Struct("Protocol")))>>,
     <<"Suites", "suites", Slice(Ptr(Struct("ProtocolSuites")))>>,
     <<"NoSNISuites", "noSniSuites", Ptr(Struct("ProtocolSuites"))>>,
     <<"NamedGroups", "namedGroups", Ptr(Struct("NamedGroups"))>>,
     <<"ServerSignature", "serverSignature", T_string>>,
     <<"PrefixDelegation", "prefixDelegation", T_bool>>,
     <<"NonPrefixDelegation", "nonPrefixDelegation", T_bool>>,
     <<"VulnBeast", "vulnBeast", T_bool>>,
     <<"RenegSupport", "renegSupport", T_int>>,
     <<"SessionResumption", "sessionResumption", T_int>>,
     <<"CompressionMethods", "compressionMethods", T_int>>,
     <<"SupportsNPN", "supportsNpn", T_bool>>,
     <<"NPNProtocols", "npnProtocols", T_string>>,
     <<"SupportsALPN", "supportsAlpn", T_bool>>,
     <<"ALPNProtocols", "alpnProtocols", T_string>>,
     <<"SessionTickets", "sessionTickets", T_int>>,
     <<"OCSPStapling", "ocspStapling", T_bool>>,
     <<"StaplingRevocationStatus", "staplingRevocationStatus", T_int>>,
     <<"StaplingRevocationErrorMessage", "staplingRevocationErrorMessage", T_string>>,
     <<"SNIRequired", "sniRequired", T_bool>>,
     <<"HTTPStatusCode", "httpStatusCode", T_int>>,
     <<"HTTPForwarding", "httpForwarding", T_string>>,
     <<"SupportsRC4", "supportsRc4", T_bool>>,
     <<"RC4WithModern", "rc4WithModern", T_bool>>,
     <<"RC4Only", "rc4Only", T_bool>>,
     <<"ForwardSecrecy", "forwardSecrecy", T_int>>,
     <<"SupportAEAD", "supportsAead", T_bool>>,
     <<"SupportsCBC", "supportsCBC", T_bool>>,
     <<"ProtocolIntolerance", "protocolIntolerance", T_int>>,
     <<"MiscIntolerance", "miscIntolerance", T_int>>,
     <<"SIMS", "sims", Ptr(Struct("SIMS"))>>,
     <<"Heartbleed", "heartbleed", T_bool>>,
     <<"Heartbeat", "heartbeat", T_bool>>,
     <<"OpenSSLCCS", "openSslCcs", T_int>>,
     <<"OpenSSLLuckyMinus20", "openSSLLuckyMinus20", T_int>>,
     <<"Ticketbleed", "ticketbleed", T_int>>,
     <<"Bleichenbacher", "bleichenbacher", T_int>>,
     <<"ZombiePoodle", "zombiePoodle", T_int>>,
     <<"GoldenDoodle", "goldenDoodle", T_int>>,
     <<"ZeroLengthPaddingOracle", "zeroLengthPaddingOracle", T_int>>,
     <<"SleepingPoodle", "sleepingPoodle", T_int>>,
     <<"Poodle", "poodle", T_bool>>,
     <<"PoodleTLS", "poodleTls", T_int>>,
     <<"FallbackSCSV", "fallbackScsv", T_bool>>,
     <<"Freak", "freak", T_bool>>,
     <<"HasSCT", "hasSct", T_int>>,
     <<"DHPrimes", "dhPrimes", Slice(T_string)>>,
     <<"DHUsesKnownPrimes", "dhUsesKnownPrimes", T_int>>,
     <<"DHYsReuse", "dhYsReuse", T_bool>>,
     <<"ECDHParameterReuse", "ecdhParameterReuse", T_bool>>,
     <<"Logjam", "logjam", T_bool>>,
     <<"ChaCha20Preference", "chaCha20Preference", T_bool>>,
     <<"HSTSPolicy", "hstsPolicy", Ptr(Struct("HSTSPolicy"))>>,
     <<"HSTSPreloads", "hstsPreloads", Slice(Struct("HSTSPreload"))>>,
     <<"HPKPPolicy", "hpkpPolicy", Ptr(Struct("HPKPPolicy"))>>,
     <<"HPKPRoPolicy", "hpkpRoPolicy", Ptr(Struct("HPKPPolicy"))>>,
     <<"StaticPKPPolicy", "staticPkpPolicy", Ptr(Struct("SPKPPolicy"))>>,
     <<"HTTPTransactions", "httpTransactions", Slice(Ptr(Struct("HTTPTransaction")))>>,
     <<"DrownHosts", "drownHosts", Slice(Struct("DrownHost"))>>,
     <<"DrownErrors", "drownErrors", T_bool>>,
     <<"DrownVulnerable", "drownVulnerable", T_bool>>,
     <<"ImplementsTLS13MandatoryCS", "implementsTLS13MandatoryCS", T_bool>>,
     <<"ZeroRTTEnabled", "zeroRTTEnabled", T_int>>
  >>

S_Cert ==
  <<
     <<"ID", "id", T_string>>,
     <<"Subject", "subject", T_string>>,
     <<"SerialNumber", "serialNumber", T_string>>,
     <<"CommonNames", "commonNames", Slice(T_string)>>,
     <<"AltNames", "altNames", Slice(T_string)>>,
     <<"NotBefore", "notBefore", T_int64>>,
     <<"NotAfter", "notAfter", T_int64>>,
     <<"IssuerSubject", "issuerSubject", T_string>>,
     <<"SigAlg", "sigAlg", T_string>>,
     <<"RevocationInfo", "revocationInfo", T_int>>,
     <<"CRLURIs", "crlURIs", Slice(T_string)>>,
     <<"OCSPURIs", "ocspURIs", Slice(T_string)>>,
     <<"RevocationStatus", "revocationStatus", T_int>>,
     <<"CRLRevocationStatus", "crlRevocationStatus", T_int>>,
     <<"OCSPRevocationStatus", "ocspRevocationStatus", T_int>>,
     <<"DNSCAA", "dnsCaa", T_bool>>,
     <<"CAAPolicy", "caaPolicy", Ptr(Struct("CAAPolicy"))>>,
     <<"MustStaple", "mustStaple", T_bool>>,
     <<"SGC", "sgc", T_int>>,
     <<"ValidationType", "validationType", T_string>>,
     <<"Issues", "issues", T_int>>,
     <<"SCT", "sct", T_bool>>,
     <<"SHA1Hash", "sha1Hash", T_string>>,
     <<"SHA256Hash", "sha256Hash", T_string>>,
     <<"PINSHA256", "pinSha256", T_string>>,
     <<"KeyAlg", "keyAlg", T_string>>,
     <<"KeySize", "keySize", T_int>>,
     <<"KeyStrength", "keyStrength", T_int>>,
     <<"KeyKnownDebianInsecure", "keyKnownDebianInsecure", T_bool>>,
     <<"Raw", "raw", T_string>>
  >>

S_ChainCert ==
  <<
     <<"ID", "id", T_string>>,
     <<"CertIDs", "certIds", Slice(T_string)>>,
     <<"TrustPaths", "trustPaths", Slice(Ptr(Struct("TrustPath")))>>,
     <<"Issues", "issues", T_int>>,
     <<"NoSNI", "noSni", T_bool>>
  >>

S_TrustPath ==
  <<
     <<"CertIDs", "certIds", Slice(T_string)>>,
     <<"Trust", "trust", Slice(Ptr(Struct("TrustStore")))>>
  >>

S_TrustStore ==
  <<
     <<"RootStore", "rootStore", T_string>>,
     <<"IsTrusted", "isTrusted", T_bool>>,
     <<"TrustErrorMessage", "trustErrorMessage", T_string>>
  >>

S_NamedGroups ==
  <<
     <<"List", "list", Slice(Struct("NamedGroup"))>>,
     <<"Preference", "preference", T_bool>>
  >>

S_NamedGroup ==
  <<
     <<"ID", "id", T_int>>,
     <<"Name", "name", T_string>>,
     <<"Bits", "bits", T_int>>,
     <<"NamedGroupType", "namedGroupType", T_string>>
  >>

S_Protocol ==
  <<
     <<"ID", "id", T_int>>,
     <<"Name", "name", T_string>>,
     <<"Version", "version", T_string>>,
     <<"V2SuitesDisabled", "v2SuitesDisabled", T_bool>>,
     <<"Q", "q", Ptr(T_int)>>
  >>

S_ProtocolSuites ==
  <<
     <<"Protocol", "protocol", T_int>>,
     <<"List", "list", Slice(Ptr(Struct("Suite")))>>,
     <<"Preference", "preference", T_bool>>
  >>

S_Suite ==
  <<
     <<"ID", "id", T_int>>,
     <<"Name", "name", T_string>>,
     <<"CipherStrength", "cipherStrength", T_int>>,
     <<"KxType", "kxType", T_string>>,
     <<"KxStrength", "kxStrength", T_int>>,
     <<"DHBits", "dhBits", T_int>>,
     <<"DHG", "dhG", T_int>>,
     <<"DHP", "dhP", T_int>>,
     <<"DHYs", "dhYs", T_int>>,
     <<"NamedGroupBits", "namedGroupBits", T_int>>,
     <<"NamedGroupID", "namedGroupId", T_int>>,
     <<"NamedGroupName", "namedGroupName", T_string>>,
     <<"Q", "q", Ptr(T_int)>>
  >>

S_SIMS ==
  <<
     <<"Results", "results", Slice(Ptr(Struct("SIM")))>>
  >>

S_SIM ==
  <<
     <<"Client", "client", Ptr(Struct("SimClient"))>>,
     <<"ErrorCode", "errorCode", T_int>>,
     <<"ErrorMessage", "errorMessage", T_string>>,
     <<"Attempts", "attempts", T_int>>,
     <<"CertChainID", "certChainId", T_string>>,
     <<"ProtocolID", "protocolId", T_int>>,
     <<"SuiteID", "suiteId", T_int>>,
     <<"SuiteName", "suiteName", T_string>>,
     <<"KxType", "kxType", T_string>>,
     <<"KxStrength", "kxStrength", T_int>>,
     <<"DHBits", "dhBits", T_int>>,
     <<"DHG", "dhG", T_int>>,
     <<"DHP", "dhP", T_int>>,
     <<"DHYs", "dhYs", T_int>>,
     <<"NamedGroupBits", "namedGroupBits", T_int>>,
     <<"NamedGroupID", "namedGroupId", T_int>>,
     <<"NamedGroupName", "namedGroupName", T_string>>,
     <<"KeyAlg", "keyAlg", T_string>>,
     <<"KeySize", "keySize", T_int>>,
     <<"SigAlg", "sigAlg", T_string>>
  >>

S_SimClient ==
  <<
     <<"ID", "id", T_int>>,
     <<"Name", "name", T_string>>,
     <<"Platform", "platform", T_string>>,
     <<"Version", "version", T_string>>,
     <<"IsReference", "isReference", T_bool>>
  >>

S_HSTSPolicy ==
  <<
     <<"LongMaxAge", "LONG_MAX_AGE", T_int>>,
     <<"Header", "header", T_string>>,
     <<"Status", "status", T_string>>,
     <<"Error", "error", T_string>>,
     <<"MaxAge", "maxAge", T_int64>>,
     <<"IncludeSubDomains", "includeSubDomains", T_bool>>,
     <<"Preload", "preload", T_bool>>,
     <<"Directives", "directives", T_map>>
  >>

S_HSTSPreload ==
  <<
     <<"Source", "source", T_string>>,
     <<"Hostname", "hostname", T_string>>,
     <<"Status", "status", T_string>>,
     <<"Error", "error", T_string>>,
     <<"SourceTime", "sourceTime", T_int64>>
  >>

S_HPKPPolicy ==
  <<
     <<"Header", "header", T_string>>,
     <<"Status", "status", T_string>>,
     <<"Error", "error", T_string>>,
     <<"MaxAge", "maxAge", T_int64>>,
     <<"IncludeSubDomains", "includeSubDomains", T_bool>>,
     <<"ReportURI", "reportUri", T_string>>,
     <<"Pins", "pins", Slice(Struct("Pin"))>>,
     <<"MatchedPins", "matchedPins", Slice(Struct("Pin"))>>,
     <<"Directives", "directives", Slice(Struct("Directive"))>>
  >>

S_SPKPPolicy ==
  <<
     <<"Status", "status", T_string>>,
     <<"Error", "error", T_string>>,
     <<"IncludeSubDomains", "includeSubDomains", T_bool>>,
     <<"ReportURI", "reportUri", T_string>>,
     <<"PINs", "pins", Slice(Struct("Pin"))>>,
     <<"MatchedPINs", "matchedPins", Slice(Struct("Pin"))>>,
     <<"ForbiddenPINs", "forbiddenPins", Slice(Struct("Pin"))>>,
     <<"MatchedForbiddenPINs", "matchedForbiddenPins", Slice(Struct("Pin"))>>
  >>

S_Pin ==
  <<
     <<"HashFunction", "hashFunction", T_string>>,
     <<"Value", "value", T_string>>
  >>

S_Directive ==
  <<
     <<"Name", "name", T_string>>,
     <<"Value", "value", T_string>>
  >>

S_DrownHost ==
  <<
     <<"Export", "export", T_bool>>,
     <<"IP", "ip", T_string>>,
     <<"Port", "port", T_int>>,
     <<"Special", "special", T_bool>>,
     <<"SSLv2", "sslv2", T_bool>>,
     <<"Status", "status", T_string>>
  >>

S_CAAPolicy ==
  <<
     <<"PolicyHostname", "policyHostname", T_string>>,
     <<"CAARecords", "caaRecords", Slice(Struct("CAARecord"))>>
  >>

S_CAARecord ==
  <<
     <<"Tag", "tag", T_string>>,
     <<"Value", "value", T_string>>,
     <<"Flags", "flags", T_int>>
  >>

S_HTTPTransaction ==
  <<
     <<"RequestURL", "requestUrl", T_string>>,
     <<"StatusCode", "statusCode", T_int>>,
     <<"RequestLine", "requestLine", T_string>>,
     <<"RequestHeaders", "requestHeaders", Slice(T_string)>>,
     <<"ResponseLine", "responseLine", T_string>>,
     <<"ResponseHeadersRaw", "responseHeadersRaw", Slice(T_string)>>,
     <<"ResponseHeaders", "responseHeaders", Slice(Struct("HTTPHeader"))>>,
     <<"FragileServer", "fragileServer", T_bool>>
  >>

S_HTTPHeader ==
  <<
     <<"Name", "name", T_string>>,
     <<"Value", "value", T_string>>
  >>

Structs ==
  {"Info", "AnalyzeInfo", "EndpointInfo", "EndpointDetails", "Cert", "ChainCert", "TrustPath", "TrustStore", "NamedGroups", "NamedGroup", "Protocol", "ProtocolSuites", "Suite", "SIMS", "SIM", "SimClient", "HSTSPolicy", "HSTSPreload", "HPKPPolicy", "SPKPPolicy", "Pin", "Directive", "DrownHost", "CAAPolicy", "CAARecord", "HTTPTransaction", "HTTPHeader"}

\* the fields of a struct: Go name, JSON key of the tag, type
Schema(kind) ==
  CASE kind = "Info" -> S_Info
    [] kind = "AnalyzeInfo" -> S_AnalyzeInfo
    [] kind = "EndpointInfo" -> S_EndpointInfo
    [] kind = "EndpointDetails" -> S_EndpointDetails
    [] kind = "Cert" -> S_Cert
    [] kind = "ChainCert" -> S_ChainCert
    [] kind = "TrustPath" -> S_TrustPath
    [] kind = "TrustStore" -> S_TrustStore
    [] kind = "NamedGroups" -> S_NamedGroups
    [] kind = "NamedGroup" -> S_NamedGroup
    [] kind = "Protocol" -> S_Protocol
    [] kind = "ProtocolSuites" -> S_ProtocolSuites
    [] kind = "Suite" -> S_Suite
    [] kind = "SIMS" -> S_SIMS
    [] kind = "SIM" -> S_SIM
    [] kind = "SimClient" -> S_SimClient
    [] kind = "HSTSPolicy" -> S_HSTSPolicy
    [] kind = "HSTSPreload" -> S_HSTSPreload
    [] kind = "HPKPPolicy" -> S_HPKPPolicy
    [] kind = "SPKPPolicy" -> S_SPKPPolicy
    [] kind = "Pin" -> S_Pin
    [] kind = "Directive" -> S_Directive
    [] kind = "DrownHost" -> S_DrownHost
    [] kind = "CAAPolicy" -> S_CAAPolicy
    [] kind = "CAARecord" -> S_CAARecord
    [] kind = "HTTPTransaction" -> S_HTTPTransaction
    [] kind = "HTTPHeader" -> S_HTTPHeader

FieldIndex(kind) == DOMAIN Schema(kind)
GoName(kind, i) == Schema(kind)[i][1]
JSONKey(kind, i) == Schema(kind)[i][2]
TypeOf(kind, i) == Schema(kind)[i][3]
GoNames(kind) == {GoName(kind, i) : i \in FieldIndex(kind)}
IndexOfField(kind, name) == CHOOSE i \in FieldIndex(kind) : GoName(kind, i) = name

\* encoding/json's rule for fields of one struct that carry the same key: it
\* uses none of them, silently
Live(kind, i) == \A j \in FieldIndex(kind) : JSONKey(kind, j) = JSONKey(kind, i) => j = i
LiveKeys(kind) == {JSONKey(kind, i) : i \in {j \in FieldIndex(kind) : Live(kind, j)}}
IndexOfKey(kind, key) == CHOOSE i \in FieldIndex(kind) : JSONKey(kind, i) = key

----------------------------------------------------------------------------
(* Go values and JSON documents *)

\* Go values: a string, an integer, a boolean; a pointer is <<>> (nil) or
\* <<v>>; a slice and a map say whether they are nil; a struct is a function
\* of its Go field names.  JSON values say which JSON type they are.
NilSlice == [isnil |-> TRUE, elems |-> <<>>]
NilMap == [isnil |-> TRUE, m |-> <<>>]

JNull == [j |-> "null"]
JStr(v) == [j |-> "str", v |-> v]
JNum(v) == [j |-> "num", v |-> v]
JBool(v) == [j |-> "bool", v |-> v]
JArr(v) == [j |-> "arr", v |-> v]
JObj(v) == [j |-> "obj", v |-> v]

RECURSIVE Zero(_), Sample(_), Encode(_, _), Decode(_, _), WellTyped(_, _)

\* the zero value of a type
Zero(ty) ==
  CASE ty.t = "string" -> ""
    [] ty.t \in {"int", "int64"} -> 0
    [] ty.t = "bool" -> FALSE
    [] ty.t = "ptr" -> <<>>
    [] ty.t = "slice" -> NilSlice
    [] ty.t = "map" -> NilMap
    [] ty.t = "struct" ->
         [f \in GoNames(ty.of) |-> Zero(TypeOf(ty.of, IndexOfField(ty.of, f)))]

\* a value of a type with nothing in it left at zero
Sample(ty) ==
  CASE ty.t = "string" -> "v"
    [] ty.t = "int" -> 7
    [] ty.t = "int64" -> 2000000000
    [] ty.t = "bool" -> TRUE
    [] ty.t = "ptr" -> <<Sample(ty.of)>>
    [] ty.t = "slice" -> [isnil |-> FALSE, elems |-> <<Sample(ty.of), Zero(ty.of)>>]
    [] ty.t = "map" -> [isnil |-> FALSE, m |-> [k \in {"k1", "k2"} |-> "v"]]
    [] ty.t = "struct" ->
         [f \in GoNames(ty.of) |-> Sample(TypeOf(ty.of, IndexOfField(ty.of, f)))]

\* the JSON written for a Go value: a struct becomes the object of its live
\* keys, nil becomes null
Encode(v, ty) ==
  CASE ty.t = "string" -> JStr(v)
    [] ty.t \in {"int", "int64"} -> JNum(v)
    [] ty.t = "bool" -> JBool(v)
    [] ty.t = "ptr" -> IF v = <<>> THEN JNull ELSE Encode(v[1], ty.of)
    [] ty.t = "slice" ->
         IF v.isnil THEN JNull
         ELSE JArr([i \in DOMAIN v.elems |-> Encode(v.elems[i], ty.of)])
    [] ty.t = "map" ->
         IF v.isnil THEN JNull ELSE JObj([k \in DOMAIN v.m |-> JStr(v.m[k])])
    [] ty.t = "struct" ->
         JObj([k \in LiveKeys(ty.of) |->
                 Encode(v[GoName(ty.of, IndexOfKey(ty.of, k))],
                        TypeOf(ty.of, IndexOfKey(ty.of, k)))])

\* whether json.Unmarshal accepts doc for a value of type ty: null goes into
\* anything, every other value only into its own kind; keys of an object that
\* no field carries are skipped
WellTyped(doc, ty) ==
  \/ doc.j = "null"
  \/ CASE ty.t = "string" -> doc.j = "str"
       [] ty.t \in {"int", "int64"} -> doc.j = "num"
       [] ty.t = "bool" -> doc.j = "bool"
       [] ty.t = "ptr" -> WellTyped(doc, ty.of)
       [] ty.t = "slice" ->
            doc.j = "arr" /\ \A i \in DOMAIN doc.v : WellTyped(doc.v[i], ty.of)
       [] ty.t = "map" ->
            doc.j = "obj" /\ \A k \in DOMAIN doc.v : WellTyped(doc.v[k], T_string)
       [] ty.t = "struct" ->
            /\ doc.j = "obj"
            /\ \A k \in DOMAIN doc.v \cap LiveKeys(ty.of) :
                 WellTyped(doc.v[k], TypeOf(ty.of, IndexOfKey(ty.of, k)))

\* the Go value json.Unmarshal leaves in a fresh value of type ty
Decode(doc, ty) ==
  IF doc.j = "null" THEN Zero(ty)
  ELSE CASE ty.t \in {"string", "int", "int64", "bool"} -> doc.v
         [] ty.t = "ptr" -> <<Decode(doc, ty.of)>>
         [] ty.t = "slice" ->
              [isnil |-> FALSE,
               elems |-> [i \in DOMAIN doc.v |-> Decode(doc.v[i], ty.of)]]
         [] ty.t = "map" ->
              [isnil |-> FALSE,
               m |-> [k \in DOMAIN doc.v |-> Decode(doc.v[k], T_string)]]
         [] ty.t = "struct" ->
              [f \in GoNames(ty.of) |->
                 LET i == IndexOfField(ty.of, f)
                 IN IF Live(ty.of, i) /\ JSONKey(ty.of, i) \in DOMAIN doc.v
                      THEN Decode(doc.v[JSONKey(ty.of, i)], TypeOf(ty.of, i))
                      ELSE Zero(TypeOf(ty.of, i))]

\* json.Unmarshal(body, result) for result a pointer to a fresh struct of kind
UnmarshalDoc(doc, kind) ==
  IF WellTyped(doc, Struct(kind)) /\ doc.j = "obj"
    THEN [err |-> NoErr, val |-> Decode(doc, Struct(kind))]
    ELSE [err |-> DecodeErr, val |-> Nil]

\* doc with a field that no struct of the schema has
WithUnknownField(doc) ==
  JObj([k \in DOMAIN doc.v \cup {"notInTheSchema"} |->
          IF k \in DOMAIN doc.v THEN doc.v[k] ELSE JArr(<<JStr("x")>>)])

----------------------------------------------------------------------------
(* Decoding on its own: records of every struct of the schema *)

\* the record of kind whose fields i and j are filled and whose other fields
\* are zero
RecordWith(kind, i, j) ==
  [f \in GoNames(kind) |->
     LET n == IndexOfField(kind, f)
     IN IF n \in {i, j} THEN Sample(TypeOf(kind, n)) ELSE Zero(TypeOf(kind, n))]

Records ==
  UNION { { [kind |-> kind, rec |-> RecordWith(kind, i, j)] :
              i \in FieldIndex(kind), j \in FieldIndex(kind) } : kind \in Structs }

NotDecoded == [err |-> NoErr, val |-> Nil, plain |-> Nil]

InitJSON ==
  /\ api = Nil
  /\ ap = Nil
  /\ made = 0
  /\ svc = STATUS_DNS
  /\ frame = Idle
  /\ inflight = NoReq
  /\ ret = NoRet
  /\ qin \in Records
  /\ qout = NotDecoded

\* the record is written as JSON, once with a field the schema does not know,
\* and decoded again
RoundTrip ==
  /\ qout = NotDecoded
  /\ LET doc == Encode(qin.rec, Struct(qin.kind))
         r == UnmarshalDoc(WithUnknownField(doc), qin.kind)
     IN qout' = [err |-> r.err, val |-> r.val,
                 plain |-> UnmarshalDoc(doc, qin.kind).val]
  /\ UNCHANGED <<api, ap, made, svc, frame, inflight, ret, qin>>

SpecJSON == InitJSON /\ [][RoundTrip]_vars

\* C13: a record of any struct of the response schema, written as JSON under
\* the keys of its tags and decoded again, comes back equal, and a field the
\* schema does not know is skipped without an error
C13_RoundTrip ==
  qout # NotDecoded
    => /\ qout.err = NoErr
       /\ qout.val = qin.rec
       /\ qout.plain = qin.rec

\* an AnalyzeInfo with its endpoints and certificates filled has made the trip
C13_Witness ==
  /\ qout # NotDecoded
  /\ qin.kind = "AnalyzeInfo"
  /\ ~qin.rec["Endpoints"].isnil
  /\ ~qin.rec["Certs"].isnil
  /\ qout.val["Endpoints"].elems[1][1]["IPAdress"] = "v"


====
